---- MODULE Spec2Model ----
(***************************************************************************)
(* Dental-supply inventory ledger (JHOMASA/stocka).                        *)
(*                                                                         *)
(* The ledger is the SQLite database of database/db.py: the tables         *)
(* productos, movimientos, existencias and lotes.  The operations are      *)
(* those of core/calculator.py (InventoryCalculator) and core/dental.py    *)
(* (DentalInventoryManager) and the lot form of app/main.py.  Money is     *)
(* counted in whole units of the                                           *)
(* smallest price step, so precio_total = cantidad * precio_unitario is an *)
(* integer product.  SQL NULL / Python None is the value NULL.  Every row   *)
(* carries the default empresa_id 1, the only one the program ever passes. *)
(***************************************************************************)
EXTENDS Integers, Sequences, FiniteSets, TLC

VARIABLES
    productos,    \* table productos: id -> [stock, stock_minimo, activo,
                  \* precio_unitario]
    movimientos,  \* table movimientos: rows in id (insertion) order
    existencias,  \* table existencias: set of monthly snapshot rows
    lotes,        \* table lotes: rows in id (insertion) order
    hoy,          \* the calendar month CURRENT_TIMESTAMP falls in: [mes, anio]
    reloj,        \* day of that month and half of that day: [dia, medio]
    pc,           \* position of each caller inside registrar_movimiento_dental
    call,         \* arguments (and pre-call ledger) of the call in progress
    ret           \* what the last call of each caller returned

vars == <<productos, movimientos, existencias, lotes, hoy, reloj, pc, call, ret>>

----------------------------------------------------------------------------
(* Bounds and input domains *)

MaxMovs == 2                    \* movement rows the ledger may grow to
MaxLotes == 2                   \* lots the forms may add to the ledger

NULL == "NULL"

Callers == {1, 2}
Productos == {1, 2}             \* ids of the rows of productos
PidInputs == {1, 2, 3}          \* 3 references no product
PidInputsReg == {1, 3}          \* products the registrations of Spec name
TiposValidos == {"entrada", "salida", "ajuste_positivo", "ajuste_negativo"}
TipoInputs == TiposValidos \cup {"ajuste", NULL}
CantidadInputs == {-1, 0, 2}
PrecioInputs == {3}
MesInputs == 1..12
AnioInputs == {2024, 2025}
AnioInputsMes == {0, 2024, 2025}

DefaultEmpresa == 1

EmptyCall == [op |-> "none"]
NoRet == [op |-> "none"]

----------------------------------------------------------------------------
(* Helpers *)

RECURSIVE SetToSeq(_)
\* the elements of a set of integers in ascending order (rowid order)
SetToSeq(S) ==
    IF S = {} THEN <<>>
    ELSE LET m == CHOOSE x \in S : \A y \in S : x <= y
         IN <<m>> \o SetToSeq(S \ {m})

RECURSIVE Digits(_)
\* decimal digits of a natural number, most significant first
Digits(n) == IF n < 10 THEN <<n>> ELSE Digits(n \div 10) \o <<n % 10>>

----------------------------------------------------------------------------
(* core/calculator.py: InventoryCalculator *)

\* f"{mes:02d}": at least two digits, zero padded
Fmt02d(mes) == IF mes < 10 THEN <<0>> \o Digits(mes) ELSE Digits(mes)

\* str(anio)
StrAnio(anio) == Digits(anio)

\* strftime('%m', fecha_hora): always two digits
StrftimeM(fecha) == <<fecha.mes \div 10, fecha.mes % 10>>

\* strftime('%Y', fecha_hora): always four digits
StrftimeY(fecha) ==
    <<(fecha.anio \div 1000) % 10, (fecha.anio \div 100) % 10,
      (fecha.anio \div 10) % 10, fecha.anio % 10>>

\* a plausible slip: January wraps to December of the same year
_get_previous_month_mismo_anio(mes, anio) ==
    IF mes = 1 THEN <<12, anio>> ELSE <<mes - 1, anio>>

_get_previous_month(mes, anio) ==
    IF mes = 1 THEN <<12, anio - 1>> ELSE <<mes - 1, anio>>

\* a plausible slip: the WHERE clause leaves out the period
_obtener_datos_sin_periodo(producto_id, mes, anio, empresa_id) ==
    {e \in existencias :
        /\ e.producto_id = producto_id
        /\ e.empresa_id = empresa_id}

\* a plausible slip: the WHERE clause leaves out the product
_obtener_datos_sin_producto(producto_id, mes, anio, empresa_id) ==
    {e \in existencias :
        /\ e.mes = mes
        /\ e.anio = anio
        /\ e.empresa_id = empresa_id}

\* the rows the SELECT on existencias returns (UNIQUE makes it at most one)
_obtener_datos_mes_anterior(producto_id, mes, anio, empresa_id) ==
    {e \in existencias :
        /\ e.producto_id = producto_id
        /\ e.mes = mes
        /\ e.anio = anio
        /\ e.empresa_id = empresa_id}

RECURSIVE FiltrarMovimientosSinAnio(_, _, _, _, _)
\* a plausible slip: the WHERE clause compares the month only
FiltrarMovimientosSinAnio(movs, producto_id, mes, anio, empresa_id) ==
    IF movs = <<>> THEN <<>>
    ELSE LET m == Head(movs)
             resto == FiltrarMovimientosSinAnio(Tail(movs), producto_id, mes,
                                                anio, empresa_id)
         IN IF /\ m.producto_id = producto_id
               /\ StrftimeM(m.fecha_hora) = Fmt02d(mes)
               /\ m.empresa_id = empresa_id
            THEN <<m>> \o resto
            ELSE resto

RECURSIVE FiltrarMovimientos(_, _, _, _, _)
\* WHERE producto_id = ? AND strftime('%m', fecha_hora) = ? AND
\* strftime('%Y', fecha_hora) = ? AND empresa_id = ?, in id order
FiltrarMovimientos(movs, producto_id, mes, anio, empresa_id) ==
    IF movs = <<>> THEN <<>>
    ELSE LET m == Head(movs)
             resto == FiltrarMovimientos(Tail(movs), producto_id, mes, anio, empresa_id)
         IN IF /\ m.producto_id = producto_id
               /\ StrftimeM(m.fecha_hora) = Fmt02d(mes)
               /\ StrftimeY(m.fecha_hora) = StrAnio(anio)
               /\ m.empresa_id = empresa_id
            THEN <<m>> \o resto
            ELSE resto

_obtener_movimientos_mes(producto_id, mes, anio, empresa_id) ==
    FiltrarMovimientos(movimientos, producto_id, mes, anio, empresa_id)

RECURSIVE SumCantidad(_, _)
\* sum(m['cantidad'] for m in movs if m['tipo'] in tipos)
SumCantidad(movs, tipos) ==
    IF movs = <<>> THEN 0
    ELSE (IF Head(movs).tipo \in tipos THEN Head(movs).cantidad ELSE 0)
         + SumCantidad(Tail(movs), tipos)

RECURSIVE SumPrecioTotal(_, _)
\* sum(m['precio_total'] for m in movs if m['tipo'] in tipos)
SumPrecioTotal(movs, tipos) ==
    IF movs = <<>> THEN 0
    ELSE (IF Head(movs).tipo \in tipos THEN Head(movs).precio_total ELSE 0)
         + SumPrecioTotal(Tail(movs), tipos)

\* a plausible slip: positive adjustments left out of the inflow
TiposEntradaSoloEntrada == {"entrada"}

TiposEntrada == {"entrada", "ajuste_positivo"}
TiposSalida == {"salida", "ajuste_negativo"}

\* a plausible slip: the closing figure floored at zero
CierreConPiso(inicial, entra, sale) ==
    IF inicial + entra - sale < 0 THEN 0 ELSE inicial + entra - sale

\* 'stock_final': stock_inicial + entradas - salidas, and the same for valor_final
Cierre(inicial, entra, sale) == inicial + entra - sale

calcular_existencias_mes(producto_id, mes, anio, empresa_id) ==
    LET prev == _get_previous_month(mes, anio)
        prev_data == _obtener_datos_mes_anterior(producto_id, prev[1], prev[2], empresa_id)
        movs == _obtener_movimientos_mes(producto_id, mes, anio, empresa_id)
        stock_inicial == IF prev_data # {}
                         THEN (CHOOSE e \in prev_data : TRUE).stock_final ELSE 0
        valor_inicial == IF prev_data # {}
                         THEN (CHOOSE e \in prev_data : TRUE).valor_final ELSE 0
        entradas == SumCantidad(movs, TiposEntrada)
        salidas == SumCantidad(movs, TiposSalida)
        valor_entradas == SumPrecioTotal(movs, TiposEntrada)
        valor_salidas == SumPrecioTotal(movs, TiposSalida)
    IN [producto_id |-> producto_id,
        mes |-> mes,
        anio |-> anio,
        empresa_id |-> empresa_id,
        stock_inicial |-> stock_inicial,
        entradas |-> entradas,
        salidas |-> salidas,
        stock_final |-> Cierre(stock_inicial, entradas, salidas),
        valor_inicial |-> valor_inicial,
        valor_entradas |-> valor_entradas,
        valor_salidas |-> valor_salidas,
        valor_final |-> Cierre(valor_inicial, valor_entradas, valor_salidas)]

\* a plausible slip: the stored counter passed off as the recomputed stock
StockCalculadoDelContador(producto_id) == productos[producto_id].stock

\* stock_calculado of productos p LEFT JOIN movimientos m ON p.id =
\* m.producto_id: COALESCE(SUM(CASE WHEN m.tipo IN (...) THEN m.cantidad
\* ELSE 0 END), 0) of the inflow kinds minus that of the outflow kinds; a
\* NULL tipo falls to ELSE 0 in both
StockCalculado(producto_id) ==
    LET movs == SelectSeq(movimientos, LAMBDA m : m.producto_id = producto_id)
    IN SumCantidad(movs, {"entrada", "ajuste_positivo"})
       - SumCantidad(movs, {"salida", "ajuste_negativo"})

\* the rows of the query: WHERE p.id = ? GROUP BY p.id gives one row for a
\* product and none for an id without product (nombre is left out)
FilasStockActual(producto_id) ==
    IF producto_id \in DOMAIN productos
    THEN <<[stock |-> productos[producto_id].stock,
            stock_minimo |-> productos[producto_id].stock_minimo,
            stock_calculado |-> StockCalculado(producto_id)]>>
    ELSE <<>>

\* return result[0] if result else None
calcular_stock_actual(producto_id) ==
    LET result == FilasStockActual(producto_id)
    IN IF result # <<>> THEN [es_none |-> FALSE, fila |-> result[1]]
                        ELSE [es_none |-> TRUE]

----------------------------------------------------------------------------
(* core/dental.py: DentalInventoryManager, read operations *)

\* a plausible slip: the listing query without WHERE activo = TRUE
ProductosTodos == SetToSeq(DOMAIN productos)

\* SELECT id FROM productos WHERE activo = TRUE, in rowid order
ProductosActivos == SetToSeq({p \in DOMAIN productos : productos[p].activo})

RECURSIVE ReporteProductos(_, _, _)
\* the loop of generar_reporte_sunat over the listed products
ReporteProductos(ids, mes, anio) ==
    IF ids = <<>> THEN <<>>
    ELSE LET ex == calcular_existencias_mes(Head(ids), mes, anio, DefaultEmpresa)
         IN <<[producto_id |-> Head(ids),
               stock_inicial |-> ex.stock_inicial,
               entradas |-> ex.entradas,
               salidas |-> ex.salidas,
               stock_final |-> ex.stock_final,
               valor_final |-> ex.valor_final]>>
            \o ReporteProductos(Tail(ids), mes, anio)

\* a plausible slip: = instead of +=, the total is the last product's value
ReporteTotalUltimo(ids, mes, anio) ==
    IF ids = <<>> THEN 0
    ELSE calcular_existencias_mes(ids[Len(ids)], mes, anio, DefaultEmpresa).valor_final

RECURSIVE ReporteTotal(_, _, _)
\* reporte['total_valor_final'] += existencias['valor_final'], from 0.0
ReporteTotal(ids, mes, anio) ==
    IF ids = <<>> THEN 0
    ELSE ReporteTotal(SubSeq(ids, 1, Len(ids) - 1), mes, anio)
         + calcular_existencias_mes(ids[Len(ids)], mes, anio, DefaultEmpresa).valor_final

generar_reporte_sunat(mes, anio) ==
    [mes |-> mes,
     anio |-> anio,
     productos |-> ReporteProductos(ProductosActivos, mes, anio),
     total_valor_final |-> ReporteTotal(ProductosActivos, mes, anio)]

\* a plausible slip: a product whose valuation raises is skipped (try /
\* except / continue inside the loop) and the rest is reported
generar_reporte_sunat_saltando(mes, anio, fallan) ==
    LET ids == SelectSeq(ProductosActivos, LAMBDA p : p \notin fallan)
    IN [raised |-> FALSE,
        val |-> [mes |-> mes, anio |-> anio,
                 productos |-> ReporteProductos(ids, mes, anio),
                 total_valor_final |-> ReporteTotal(ids, mes, anio)]]

\* generar_reporte_sunat when execute_query raises inside the valuation of
\* the products in fallan: the loop has no try, so the first listed product
\* that raises ends the call with the exception and the entries built so
\* far are lost with it
generar_reporte_sunat_con_fallas(mes, anio, fallan) ==
    IF \E i \in 1..Len(ProductosActivos) : ProductosActivos[i] \in fallan
    THEN [raised |-> TRUE]
    ELSE [raised |-> FALSE, val |-> generar_reporte_sunat(mes, anio)]

\* calcular_existencias_mes when one of its two execute_query calls raises
\* (falla): no try, no second attempt, the exception leaves the call
calcular_existencias_mes_con_fallas(producto_id, mes, anio, empresa_id, falla) ==
    IF falla
    THEN [raised |-> TRUE]
    ELSE [raised |-> FALSE,
          val |-> calcular_existencias_mes(producto_id, mes, anio, empresa_id)]

RECURSIVE SugerirFilasMenorIgual(_)
\* a plausible slip: stock <= stock_minimo instead of stock < stock_minimo
SugerirFilasMenorIgual(ids) ==
    IF ids = <<>> THEN <<>>
    ELSE LET p == productos[Head(ids)]
         IN (IF p.stock <= p.stock_minimo /\ p.activo
             THEN <<[id |-> Head(ids),
                     stock |-> p.stock,
                     stock_minimo |-> p.stock_minimo,
                     cantidad_sugerida |-> p.stock_minimo - p.stock]>>
             ELSE <<>>)
            \o SugerirFilasMenorIgual(Tail(ids))

RECURSIVE SugerirFilas(_)
SugerirFilas(ids) ==
    IF ids = <<>> THEN <<>>
    ELSE LET p == productos[Head(ids)]
         IN (IF p.stock < p.stock_minimo /\ p.activo
             THEN <<[id |-> Head(ids),
                     stock |-> p.stock,
                     stock_minimo |-> p.stock_minimo,
                     cantidad_sugerida |-> p.stock_minimo - p.stock]>>
             ELSE <<>>)
            \o SugerirFilas(Tail(ids))

sugerir_pedidos == SugerirFilas(SetToSeq(DOMAIN productos))

----------------------------------------------------------------------------
(* Calendar dates.  A date is [anio, mes, dia]; sqlite3 stores and binds a  *)
(* datetime.date as its ISO text 'YYYY-MM-DD' and SQLite compares the       *)
(* texts.  The server's local time is taken to be UTC, so the date of       *)
(* datetime.now() and the day of SQLite's 'now' are the same day.           *)

Fecha(anio, mes, dia) == [anio |-> anio, mes |-> mes, dia |-> dia]

\* datetime.now().date()
FechaHoy == Fecha(hoy.anio, hoy.mes, reloj.dia)

EsBisiesto(anio) == (anio % 4 = 0 /\ anio % 100 # 0) \/ anio % 400 = 0

DiasDelMes(mes, anio) ==
    IF mes = 2 THEN (IF EsBisiesto(anio) THEN 29 ELSE 28)
    ELSE IF mes \in {4, 6, 9, 11} THEN 30 ELSE 31

DiaSiguiente(f) ==
    IF f.dia < DiasDelMes(f.mes, f.anio) THEN Fecha(f.anio, f.mes, f.dia + 1)
    ELSE IF f.mes < 12 THEN Fecha(f.anio, f.mes + 1, 1)
    ELSE Fecha(f.anio + 1, 1, 1)

RECURSIVE SumarDias(_, _)
\* fecha + timedelta(days=n), n >= 0
SumarDias(f, n) == IF n = 0 THEN f ELSE SumarDias(DiaSiguiente(f), n - 1)

\* date.isoformat(): the digits of 'YYYY-MM-DD' (the two hyphens stand at
\* the same places in every date and are left out)
IsoFormat(f) ==
    <<f.anio \div 1000, (f.anio \div 100) % 10, (f.anio \div 10) % 10,
      f.anio % 10, f.mes \div 10, f.mes % 10, f.dia \div 10, f.dia % 10>>

RECURSIVE TextoMenorIgual(_, _)
\* a <= b for two TEXT values: character by character, a prefix first
TextoMenorIgual(a, b) ==
    IF a = <<>> THEN TRUE
    ELSE IF b = <<>> THEN FALSE
    ELSE IF Head(a) # Head(b) THEN Head(a) < Head(b)
    ELSE TextoMenorIgual(Tail(a), Tail(b))

\* a plausible slip: the upper end of the window left out
BetweenSinLimite(x, lo, hi) ==
    TextoMenorIgual(lo, x) /\ ~TextoMenorIgual(hi, x)

\* x BETWEEN lo AND hi
Between(x, lo, hi) == TextoMenorIgual(lo, x) /\ TextoMenorIgual(x, hi)

\* the Julian day number of a date (SQLite date.c, computeJD); julianday()
\* of the date text is that number less one half: midnight UTC
DiaJuliano(f) ==
    LET a == IF f.mes <= 2 THEN 1 ELSE 0
        y == f.anio + 4800 - a
        m == f.mes + 12 * a - 3
    IN f.dia + ((153 * m + 2) \div 5) + 365 * y + (y \div 4)
       - (y \div 100) + (y \div 400) - 32045

\* julianday(fecha) - julianday('now'), counted in halves of a day: 'now'
\* is the instant of the call, reloj.medio halves past midnight
DiasRestantes(fecha) == 2 * (DiaJuliano(fecha) - DiaJuliano(FechaHoy)) - reloj.medio

----------------------------------------------------------------------------
(* core/dental.py: verificar_vencimientos *)

\* WHERE l.fecha_vencimiento BETWEEN ? AND ? AND p.activo = TRUE, over
\* lotes l JOIN productos p ON l.producto_id = p.id
LotesEnVentana(desde, hasta) ==
    SelectSeq(lotes, LAMBDA l :
        /\ l.producto_id \in DOMAIN productos
        /\ Between(IsoFormat(l.fecha_vencimiento), IsoFormat(desde), IsoFormat(hasta))
        /\ productos[l.producto_id].activo)

RECURSIVE InsertarPorVencimiento(_, _)
InsertarPorVencimiento(l, s) ==
    IF s = <<>> THEN <<l>>
    ELSE IF TextoMenorIgual(IsoFormat(l.fecha_vencimiento),
                            IsoFormat(Head(s).fecha_vencimiento))
    THEN <<l>> \o s
    ELSE <<Head(s)>> \o InsertarPorVencimiento(l, Tail(s))

RECURSIVE OrdenarPorVencimiento(_)
\* ORDER BY l.fecha_vencimiento; rows of one date stay in id order
OrdenarPorVencimiento(s) ==
    IF s = <<>> THEN <<>>
    ELSE InsertarPorVencimiento(Head(s), OrdenarPorVencimiento(Tail(s)))

\* the row the SELECT list makes of a lot.  producto is the product's name,
\* which stands for the product; lote is the lot's id, which the query does
\* not select and which only tells two equal rows apart.  dias_restantes is
\* counted in halves of a day.
FilaVencimiento(l) ==
    [producto |-> l.producto_id,
     numero_lote |-> l.numero_lote,
     fecha_vencimiento |-> l.fecha_vencimiento,
     cantidad |-> l.cantidad,
     dias_restantes |-> DiasRestantes(l.fecha_vencimiento),
     lote |-> l.id]

verificar_vencimientos(dias_alerta) ==
    LET fecha_limite == SumarDias(FechaHoy, dias_alerta)
        filas == OrdenarPorVencimiento(LotesEnVentana(FechaHoy, fecha_limite))
    IN [i \in 1..Len(filas) |-> FilaVencimiento(filas[i])]

----------------------------------------------------------------------------
(* database/db.py: schema constraints of movimientos *)

\* a plausible slip: PRAGMA foreign_keys left at SQLite's default (OFF), so
\* that the reference is not enforced
FkProductoApagado(producto_id) == TRUE

\* FOREIGN KEY (producto_id) REFERENCES productos(id), foreign_keys = ON
FkProducto(producto_id) == producto_id \in DOMAIN productos

\* CHECK(tipo IN (...)): violated only when the expression is false; a NULL
\* tipo makes it NULL, which SQLite does not count as a violation
CheckTipo(tipo) == tipo = NULL \/ tipo \in TiposValidos

\* a plausible slip: the total computed from the product's current price
NuevaFilaPrecioProducto(producto_id, tipo, cantidad, precio_unitario) ==
    [id |-> Len(movimientos) + 1,
     producto_id |-> producto_id,
     tipo |-> tipo,
     cantidad |-> cantidad,
     precio_unitario |-> precio_unitario,
     precio_total |-> cantidad * productos[producto_id].precio_unitario,
     fecha_hora |-> hoy,
     empresa_id |-> DefaultEmpresa]

\* the row INSERT INTO movimientos (...) VALUES (?, ?, ?, ?, ?) stores;
\* precio_total is GENERATED ALWAYS AS (cantidad * precio_unitario) STORED,
\* from the row's own columns
NuevaFila(producto_id, tipo, cantidad, precio_unitario) ==
    [id |-> Len(movimientos) + 1,
     producto_id |-> producto_id,
     tipo |-> tipo,
     cantidad |-> cantidad,
     precio_unitario |-> precio_unitario,
     precio_total |-> cantidad * precio_unitario,
     fecha_hora |-> hoy,
     empresa_id |-> DefaultEmpresa]

----------------------------------------------------------------------------
(* Actions.  A caller is idle, between the two writes of                   *)
(* registrar_movimiento_dental ("update"), or holds the value a call has   *)
(* just returned ("returned") until it goes on (Volver).                   *)

Idle(c) == pc[c] = "idle"

\* a plausible slip: the result taken from the INSERT's row count, so that
\* a failure of the UPDATE goes unreported
RetRegistrarFilaInsertada(producto_id, tipo, cantidad, precio_unitario, val, insertado, pre_productos, pre_movimientos) ==
    [op |-> "registrar_movimiento_dental",
     producto_id |-> producto_id, tipo |-> tipo, cantidad |-> cantidad,
     precio_unitario |-> precio_unitario,
     val |-> insertado,
     insertado |-> insertado,
     pre_productos |-> pre_productos,
     pre_movimientos |-> pre_movimientos]

RetRegistrar(producto_id, tipo, cantidad, precio_unitario, val, insertado, pre_productos, pre_movimientos) ==
    [op |-> "registrar_movimiento_dental",
     producto_id |-> producto_id, tipo |-> tipo, cantidad |-> cantidad,
     precio_unitario |-> precio_unitario,
     val |-> val,                       \* the bool the call returns
     insertado |-> insertado,           \* whether the INSERT was committed
     pre_productos |-> pre_productos,   \* the ledger when the call began
     pre_movimientos |-> pre_movimientos]

\* registrar_movimiento_dental, first execute_update: INSERT + commit.
\* falla: the storage layer raises (locked database, I/O error).
\* documento is stored in the row and read by no operation; it is left out.
RegistrarInsert(c, producto_id, tipo, cantidad, precio_unitario, falla) ==
    /\ Idle(c)
    /\ IF falla \/ ~FkProducto(producto_id) \/ ~CheckTipo(tipo)
       THEN \* except Exception: return False
            /\ ret' = [ret EXCEPT ![c] =
                        RetRegistrar(producto_id, tipo, cantidad, precio_unitario,
                                     FALSE, FALSE, productos, movimientos)]
            /\ pc' = [pc EXCEPT ![c] = "returned"]
            /\ UNCHANGED <<productos, movimientos, call>>
       ELSE /\ Len(movimientos) < MaxMovs
            /\ movimientos' = Append(movimientos,
                    NuevaFila(producto_id, tipo, cantidad, precio_unitario))
            /\ pc' = [pc EXCEPT ![c] = "update"]
            /\ call' = [call EXCEPT ![c] =
                        [op |-> "registrar_movimiento_dental",
                         producto_id |-> producto_id, tipo |-> tipo,
                         cantidad |-> cantidad,
                         precio_unitario |-> precio_unitario,
                         pre_productos |-> productos,
                         pre_movimientos |-> movimientos]]
            /\ UNCHANGED <<productos, ret>>
    /\ UNCHANGED <<existencias, lotes, hoy, reloj>>

\* a plausible slip: only 'entrada' adds (as the movement form of the UI does)
StockDeltaSoloEntrada(tipo, cantidad) ==
    IF tipo = "entrada" THEN cantidad ELSE -cantidad

\* the signed change the UPDATE statement chosen for tipo applies to stock
StockDelta(tipo, cantidad) ==
    IF tipo \in {"entrada", "ajuste_positivo"} THEN cantidad ELSE -cantidad

\* the rows UPDATE productos ... WHERE id = ? changes (cursor.rowcount)
Afectadas(producto_id) == IF producto_id \in DOMAIN productos THEN 1 ELSE 0

\* a plausible slip: a failed stock update is compensated by deleting the
\* movement row the call has just inserted
RegistrarUpdateCompensando(c, falla) ==
    /\ pc[c] = "update"
    /\ IF falla
       THEN /\ movimientos' = SubSeq(movimientos, 1, Len(movimientos) - 1)
            /\ UNCHANGED productos
       ELSE /\ productos' = [productos EXCEPT ![call[c].producto_id].stock =
                               @ + StockDelta(call[c].tipo, call[c].cantidad)]
            /\ UNCHANGED movimientos
    /\ ret' = [ret EXCEPT ![c] =
                RetRegistrar(call[c].producto_id, call[c].tipo, call[c].cantidad,
                             call[c].precio_unitario, ~falla, ~falla,
                             call[c].pre_productos, call[c].pre_movimientos)]
    /\ pc' = [pc EXCEPT ![c] = "returned"]
    /\ call' = [call EXCEPT ![c] = EmptyCall]
    /\ UNCHANGED <<existencias, lotes, hoy, reloj>>

\* a plausible slip: the new stock computed in Python from the stock read
\* when the call began and written back (SET stock = ?)
RegistrarUpdateLeerEscribir(c, falla) ==
    /\ pc[c] = "update"
    /\ IF falla \/ Afectadas(call[c].producto_id) = 0
       THEN UNCHANGED productos
       ELSE productos' = [productos EXCEPT ![call[c].producto_id].stock =
                            call[c].pre_productos[call[c].producto_id].stock
                            + StockDelta(call[c].tipo, call[c].cantidad)]
    /\ ret' = [ret EXCEPT ![c] =
                RetRegistrar(call[c].producto_id, call[c].tipo, call[c].cantidad,
                             call[c].precio_unitario,
                             ~falla /\ Afectadas(call[c].producto_id) > 0, TRUE,
                             call[c].pre_productos, call[c].pre_movimientos)]
    /\ pc' = [pc EXCEPT ![c] = "returned"]
    /\ call' = [call EXCEPT ![c] = EmptyCall]
    /\ UNCHANGED <<movimientos, existencias, lotes, hoy, reloj>>

\* registrar_movimiento_dental, second execute_update: UPDATE + commit,
\* then return affected > 0; a raise is caught and False returned.  The
\* UPDATE adds to the stock the row holds when the statement runs.
RegistrarUpdate(c, falla) ==
    /\ pc[c] = "update"
    /\ IF falla \/ Afectadas(call[c].producto_id) = 0
       THEN UNCHANGED productos
       ELSE productos' = [productos EXCEPT ![call[c].producto_id].stock =
                            @ + StockDelta(call[c].tipo, call[c].cantidad)]
    /\ ret' = [ret EXCEPT ![c] =
                RetRegistrar(call[c].producto_id, call[c].tipo, call[c].cantidad,
                             call[c].precio_unitario,
                             ~falla /\ Afectadas(call[c].producto_id) > 0, TRUE,
                             call[c].pre_productos, call[c].pre_movimientos)]
    /\ pc' = [pc EXCEPT ![c] = "returned"]
    /\ call' = [call EXCEPT ![c] = EmptyCall]
    /\ UNCHANGED <<movimientos, existencias, lotes, hoy, reloj>>

\* a plausible slip: the computed closing figures persisted as a snapshot
CalcularExistenciasMesGuardando(c, producto_id, mes, anio) ==
    LET ex == calcular_existencias_mes(producto_id, mes, anio, DefaultEmpresa)
    IN /\ Idle(c)
       /\ existencias' = existencias \cup
               {[producto_id |-> producto_id, mes |-> mes, anio |-> anio,
                 stock_final |-> ex.stock_final, valor_final |-> ex.valor_final,
                 empresa_id |-> DefaultEmpresa]}
       /\ ret' = [ret EXCEPT ![c] =
                   [op |-> "calcular_existencias_mes",
                    leido |-> _get_previous_month(mes, anio),
                    movs |-> _obtener_movimientos_mes(producto_id, mes, anio,
                                                      DefaultEmpresa),
                    val |-> ex]]
       /\ pc' = [pc EXCEPT ![c] = "returned"]
       /\ UNCHANGED <<productos, movimientos, lotes, hoy, reloj, call>>

\* the three queries are SELECTs through execute_query, which never commits
CalcularExistenciasMes(c, producto_id, mes, anio) ==
    /\ Idle(c)
    /\ ret' = [ret EXCEPT ![c] =
                [op |-> "calcular_existencias_mes",
                 \* the period passed to _obtener_datos_mes_anterior
                 leido |-> _get_previous_month(mes, anio),
                 \* the rows _obtener_movimientos_mes returned
                 movs |-> _obtener_movimientos_mes(producto_id, mes, anio,
                                                   DefaultEmpresa),
                 val |-> calcular_existencias_mes(producto_id, mes, anio, DefaultEmpresa)]]
    /\ pc' = [pc EXCEPT ![c] = "returned"]
    /\ UNCHANGED <<productos, movimientos, existencias, lotes, hoy, reloj, call>>

\* a plausible slip: the report persists the closing figures of every product
\* it lists as the month's snapshots
GenerarReporteSunatGuardando(c, mes, anio) ==
    /\ Idle(c)
    /\ existencias' = existencias \cup
            {[producto_id |-> p, mes |-> mes, anio |-> anio,
              stock_final |->
                  calcular_existencias_mes(p, mes, anio, DefaultEmpresa).stock_final,
              valor_final |->
                  calcular_existencias_mes(p, mes, anio, DefaultEmpresa).valor_final,
              empresa_id |-> DefaultEmpresa] :
             p \in {q \in DOMAIN productos : productos[q].activo}}
    /\ ret' = [ret EXCEPT ![c] =
                [op |-> "generar_reporte_sunat",
                 val |-> generar_reporte_sunat(mes, anio)]]
    /\ pc' = [pc EXCEPT ![c] = "returned"]
    /\ UNCHANGED <<productos, movimientos, lotes, hoy, reloj, call>>

GenerarReporteSunat(c, mes, anio) ==
    /\ Idle(c)
    /\ ret' = [ret EXCEPT ![c] =
                [op |-> "generar_reporte_sunat",
                 val |-> generar_reporte_sunat(mes, anio)]]
    /\ pc' = [pc EXCEPT ![c] = "returned"]
    /\ UNCHANGED <<productos, movimientos, existencias, lotes, hoy, reloj, call>>

\* generar_reporte_sunat, query by query, for callers on connections of
\* their own to the same database file: every SELECT of the loop reads the
\* rows committed when it runs.  First the listing of the active products.
GenerarReporteListar(c, mes, anio) ==
    /\ Idle(c)
    /\ IF ProductosActivos = <<>>
       THEN /\ ret' = [ret EXCEPT ![c] =
                        [op |-> "generar_reporte_sunat",
                         val |-> [mes |-> mes, anio |-> anio,
                                  productos |-> <<>>, total_valor_final |-> 0],
                         pre_movimientos |-> movimientos,
                         fin_movimientos |-> movimientos]]
            /\ pc' = [pc EXCEPT ![c] = "returned"]
            /\ UNCHANGED call
       ELSE /\ call' = [call EXCEPT ![c] =
                        [op |-> "generar_reporte_sunat",
                         pendientes |-> ProductosActivos,   \* for producto in productos
                         reporte |-> [mes |-> mes, anio |-> anio,
                                      productos |-> <<>>,
                                      total_valor_final |-> 0],
                         pre_movimientos |-> movimientos]]
            /\ pc' = [pc EXCEPT ![c] = "reporte"]
            /\ UNCHANGED ret
    /\ UNCHANGED <<productos, movimientos, existencias, lotes, hoy, reloj>>

\* one turn of the loop: the valuation of the next listed product over the
\* ledger as it is now; after the last product the report is returned
GenerarReporteProducto(c) ==
    /\ pc[c] = "reporte"
    /\ LET r == call[c].reporte
           p == Head(call[c].pendientes)
           ex == calcular_existencias_mes(p, r.mes, r.anio, DefaultEmpresa)
           reporte == [r EXCEPT
                         !.productos = Append(@,
                             [producto_id |-> p,
                              stock_inicial |-> ex.stock_inicial,
                              entradas |-> ex.entradas,
                              salidas |-> ex.salidas,
                              stock_final |-> ex.stock_final,
                              valor_final |-> ex.valor_final]),
                         !.total_valor_final = @ + ex.valor_final]
       IN IF Tail(call[c].pendientes) = <<>>
          THEN /\ ret' = [ret EXCEPT ![c] =
                           [op |-> "generar_reporte_sunat",
                            val |-> reporte,
                            \* the movements when the call began and ended
                            pre_movimientos |-> call[c].pre_movimientos,
                            fin_movimientos |-> movimientos]]
               /\ pc' = [pc EXCEPT ![c] = "returned"]
               /\ call' = [call EXCEPT ![c] = EmptyCall]
          ELSE /\ call' = [call EXCEPT ![c] =
                            [@ EXCEPT !.pendientes = Tail(@),
                                      !.reporte = reporte]]
               /\ UNCHANGED <<pc, ret>>
    /\ UNCHANGED <<productos, movimientos, existencias, lotes, hoy, reloj>>

\* the two reads under storage failures: what the caller is left with is a
\* returned value or an exception (raised)
CalcularExistenciasMesFalla(c, producto_id, mes, anio, falla) ==
    /\ Idle(c)
    /\ ret' = [ret EXCEPT ![c] =
                [op |-> "lectura_con_fallas",
                 de |-> "calcular_existencias_mes",
                 mes |-> mes, anio |-> anio,
                 fallan |-> IF falla THEN {producto_id} ELSE {},
                 res |-> calcular_existencias_mes_con_fallas(
                             producto_id, mes, anio, DefaultEmpresa, falla)]]
    /\ pc' = [pc EXCEPT ![c] = "returned"]
    /\ UNCHANGED <<productos, movimientos, existencias, lotes, hoy, reloj, call>>

GenerarReporteSunatFalla(c, mes, anio, fallan) ==
    /\ Idle(c)
    /\ ret' = [ret EXCEPT ![c] =
                [op |-> "lectura_con_fallas",
                 de |-> "generar_reporte_sunat",
                 mes |-> mes, anio |-> anio,
                 fallan |-> fallan,
                 res |-> generar_reporte_sunat_con_fallas(mes, anio, fallan)]]
    /\ pc' = [pc EXCEPT ![c] = "returned"]
    /\ UNCHANGED <<productos, movimientos, existencias, lotes, hoy, reloj, call>>

CalcularStockActual(c, producto_id) ==
    /\ Idle(c)
    /\ ret' = [ret EXCEPT ![c] =
                [op |-> "calcular_stock_actual", producto_id |-> producto_id,
                 val |-> calcular_stock_actual(producto_id)]]
    /\ pc' = [pc EXCEPT ![c] = "returned"]
    /\ UNCHANGED <<productos, movimientos, existencias, lotes, hoy, reloj, call>>

SugerirPedidos(c) ==
    /\ Idle(c)
    /\ ret' = [ret EXCEPT ![c] =
                [op |-> "sugerir_pedidos", val |-> sugerir_pedidos]]
    /\ pc' = [pc EXCEPT ![c] = "returned"]
    /\ UNCHANGED <<productos, movimientos, existencias, lotes, hoy, reloj, call>>

\* the caller takes the returned value and is ready for its next call
Volver(c) ==
    /\ pc[c] = "returned"
    /\ pc' = [pc EXCEPT ![c] = "idle"]
    /\ ret' = [ret EXCEPT ![c] = NoRet]
    /\ UNCHANGED <<productos, movimientos, existencias, lotes, hoy, reloj, call>>

\* the calendar moves on to the next month
FinDelReloj == [mes |-> 1, anio |-> 2025]

Tick ==
    /\ hoy # FinDelReloj
    /\ hoy' = IF hoy.mes = 12 THEN [mes |-> 1, anio |-> hoy.anio + 1]
                              ELSE [mes |-> hoy.mes + 1, anio |-> hoy.anio]
    /\ UNCHANGED <<productos, movimientos, existencias, lotes, reloj, pc, call, ret>>

\* database/db.py, table existencias: CHECK (mes BETWEEN 1 AND 12)
CheckMes(mes) == mes >= 1 /\ mes <= 12

\* UNIQUE(producto_id, mes, anio, empresa_id): no stored row has the four
UniqueExistencias(producto_id, mes, anio, empresa_id) ==
    ~\E e \in existencias :
        /\ e.producto_id = producto_id
        /\ e.mes = mes
        /\ e.anio = anio
        /\ e.empresa_id = empresa_id

\* INSERT INTO existencias through execute_update: the row is stored and
\* committed, or a constraint (or the storage layer, falla) raises and
\* nothing is stored; execute_update catches nothing
GuardarExistencia(c, producto_id, mes, anio, empresa_id, stock_final, valor_final, falla) ==
    /\ Idle(c)
    /\ LET aceptada == /\ ~falla
                       /\ FkProducto(producto_id)
                       /\ CheckMes(mes)
                       /\ UniqueExistencias(producto_id, mes, anio, empresa_id)
       IN /\ existencias' =
                IF aceptada
                THEN existencias \cup
                        {[producto_id |-> producto_id, mes |-> mes, anio |-> anio,
                          stock_final |-> stock_final, valor_final |-> valor_final,
                          empresa_id |-> empresa_id]}
                ELSE existencias
          /\ ret' = [ret EXCEPT ![c] =
                      [op |-> "guardar_existencia",
                       producto_id |-> producto_id, mes |-> mes, anio |-> anio,
                       empresa_id |-> empresa_id,
                       raised |-> ~aceptada,
                       pre_existencias |-> existencias]]
    /\ pc' = [pc EXCEPT ![c] = "returned"]
    /\ UNCHANGED <<productos, movimientos, lotes, hoy, reloj, call>>

\* a row of lotes
Lote(id, producto_id, numero_lote, fecha_vencimiento, cantidad) ==
    [id |-> id, producto_id |-> producto_id, numero_lote |-> numero_lote,
     fecha_vencimiento |-> fecha_vencimiento, cantidad |-> cantidad,
     empresa_id |-> DefaultEmpresa]

\* the lot form of the UI: the product is picked among the active ones, the
\* date input starts at today, the quantity input at 1.  INSERT INTO lotes
\* and UPDATE productos SET stock = stock + ? are one transaction: commit
\* after both, rollback when either raises (falla).
RegistrarLote(c, producto_id, numero_lote, fecha_vencimiento, cantidad, falla) ==
    /\ Idle(c)
    /\ producto_id \in DOMAIN productos
    /\ productos[producto_id].activo
    /\ DiaJuliano(fecha_vencimiento) >= DiaJuliano(FechaHoy)
    /\ cantidad >= 1
    /\ IF falla
       THEN UNCHANGED <<lotes, productos>>
       ELSE /\ Len(lotes) < MaxLotes
            /\ lotes' = Append(lotes, Lote(Len(lotes) + 1, producto_id,
                                           numero_lote, fecha_vencimiento, cantidad))
            /\ productos' = [productos EXCEPT ![producto_id].stock = @ + cantidad]
    /\ ret' = [ret EXCEPT ![c] =
                [op |-> "registrar_lote", producto_id |-> producto_id,
                 cantidad |-> cantidad, val |-> ~falla,
                 pre_productos |-> productos, pre_lotes |-> lotes]]
    /\ pc' = [pc EXCEPT ![c] = "returned"]
    /\ UNCHANGED <<movimientos, existencias, hoy, reloj, call>>

VerificarVencimientos(c, dias_alerta) ==
    /\ Idle(c)
    /\ ret' = [ret EXCEPT ![c] =
                [op |-> "verificar_vencimientos",
                 dias_alerta |-> dias_alerta,
                 hoy |-> FechaHoy,          \* the local variable hoy
                 medio |-> reloj.medio,     \* the half of the day of the call
                 val |-> verificar_vencimientos(dias_alerta)]]
    /\ pc' = [pc EXCEPT ![c] = "returned"]
    /\ UNCHANGED <<productos, movimientos, existencias, lotes, hoy, reloj, call>>

\* half a day passes: midnight to noon, noon to the next midnight
FinDelRelojDia == [fecha |-> Fecha(2025, 1, 1), medio |-> 1]

TickMedio ==
    /\ ~(FechaHoy = FinDelRelojDia.fecha /\ reloj.medio = FinDelRelojDia.medio)
    /\ IF reloj.medio = 0
       THEN /\ reloj' = [reloj EXCEPT !.medio = 1]
            /\ UNCHANGED hoy
       ELSE LET f == DiaSiguiente(FechaHoy)
            IN /\ reloj' = [dia |-> f.dia, medio |-> 0]
               /\ hoy' = [mes |-> f.mes, anio |-> f.anio]
    /\ UNCHANGED <<productos, movimientos, existencias, lotes, pc, call, ret>>

----------------------------------------------------------------------------
(* Initial ledger: a database file as InventoryDB.__init__ opens it.       *)
(* Products have the stock the schema defaults to; activo and the          *)
(* persisted snapshots are whatever the file already holds.                *)

StockMinimoDe == [p \in Productos |-> IF p = 1 THEN 2 ELSE 1]

\* productos.precio_unitario, the current price of each product
PrecioDe == [p \in Productos |-> IF p = 1 THEN 5 ELSE 1]

Snapshot(producto_id, mes, anio, stock_final, valor_final) ==
    [producto_id |-> producto_id, mes |-> mes, anio |-> anio,
     stock_final |-> stock_final, valor_final |-> valor_final,
     empresa_id |-> DefaultEmpresa]

\* persisted snapshots of a database that already holds some
Tabla == {Snapshot(1, 12, 2024, 4, 12), Snapshot(1, 11, 2024, 7, 21),
          Snapshot(2, 12, 2024, 1, 5)}

InitLedger(activos, tablas) ==
    /\ \E act \in activos :
          productos = [p \in Productos |->
                        [stock |-> 0, stock_minimo |-> StockMinimoDe[p],
                         activo |-> act[p], precio_unitario |-> PrecioDe[p]]]
    /\ movimientos = <<>>
    /\ existencias \in tablas
    /\ lotes = <<>>
    /\ hoy = [mes |-> 12, anio |-> 2024]
    /\ reloj = [dia |-> 30, medio |-> 0]
    /\ pc = [c \in Callers |-> "idle"]
    /\ call = [c \in Callers |-> EmptyCall]
    /\ ret = [c \in Callers |-> NoRet]

----------------------------------------------------------------------------
(* Spec: movement registration and the reorder scan, every input kind,     *)
(* storage failures included                                               *)

Init == InitLedger({[p \in Productos |-> p = 1]}, {{}})

Next ==
    \/ \E p \in PidInputsReg, t \in TipoInputs, q \in CantidadInputs,
          u \in PrecioInputs, f \in BOOLEAN :
          RegistrarInsert(1, p, t, q, u, f)
    \/ \E f \in BOOLEAN : RegistrarUpdate(1, f)
    \/ SugerirPedidos(1)
    \/ \E p \in PidInputs : CalcularStockActual(1, p)
    \/ Volver(1)

Spec == Init /\ [][Next]_vars

----------------------------------------------------------------------------
(* SpecVal: monthly valuation and report over ledgers that accepted        *)
(* registrations build up across two months                                *)

MesInputsVal == {1, 2, 12}
CantidadInputsVal == {2}

InitVal == InitLedger([Productos -> BOOLEAN], {{}, Tabla})

NextVal ==
    \/ \E p \in Productos, t \in TiposValidos \cup {NULL},
          q \in CantidadInputsVal, u \in PrecioInputs :
          RegistrarInsert(1, p, t, q, u, FALSE)
    \/ RegistrarUpdate(1, FALSE)
    \/ \E p \in PidInputs, m \in MesInputsVal, a \in AnioInputs :
          CalcularExistenciasMes(1, p, m, a)
    \/ \E m \in MesInputsVal, a \in AnioInputs : GenerarReporteSunat(1, m, a)
    \/ Volver(1)
    \/ Tick

SpecVal == InitVal /\ [][NextVal]_vars

----------------------------------------------------------------------------
(* SpecMes: calcular_existencias_mes applied to every month of the year,   *)
(* also in year 0, over the initial ledgers                                *)

NextMes ==
    \/ \E p \in PidInputs, m \in MesInputs, a \in AnioInputsMes :
          CalcularExistenciasMes(1, p, m, a)
    \/ Volver(1)

SpecMes == InitVal /\ [][NextMes]_vars

----------------------------------------------------------------------------
(* SpecLotes: the lot form and the expiry scan while days pass from        *)
(* 2024-12-30 into 2025; the database may already hold a lot of the        *)
(* inactive product                                                        *)

FechaInputs == {Fecha(2024, 12, 30), Fecha(2024, 12, 31), Fecha(2025, 1, 1),
                Fecha(2025, 1, 29), Fecha(2025, 1, 30)}
NumeroLoteInputs == {"L1"}
CantidadInputsLote == {1}
DiasAlertaInputs == {0, 1, 30}

LotesPrevios == <<Lote(1, 2, "L0", Fecha(2024, 12, 31), 1)>>

InitLotes ==
    /\ productos = [p \in Productos |->
                      [stock |-> 0, stock_minimo |-> StockMinimoDe[p],
                       activo |-> p = 1, precio_unitario |-> PrecioDe[p]]]
    /\ movimientos = <<>>
    /\ existencias = {}
    /\ lotes \in {<<>>, LotesPrevios}
    /\ hoy = [mes |-> 12, anio |-> 2024]
    /\ reloj = [dia |-> 30, medio |-> 0]
    /\ pc = [c \in Callers |-> "idle"]
    /\ call = [c \in Callers |-> EmptyCall]
    /\ ret = [c \in Callers |-> NoRet]

NextLotes ==
    \/ \E p \in Productos, n \in NumeroLoteInputs, f \in FechaInputs,
          q \in CantidadInputsLote, x \in BOOLEAN :
          RegistrarLote(1, p, n, f, q, x)
    \/ \E d \in DiasAlertaInputs : VerificarVencimientos(1, d)
    \/ Volver(1)
    \/ TickMedio

SpecLotes == InitLotes /\ [][NextLotes]_vars

----------------------------------------------------------------------------
(* SpecFalla: the valuation and the report of December 2024 when the       *)
(* storage layer may raise during their reads                               *)

TipoInputsFalla == {"entrada", "salida"}
MesInputsFalla == {12}
AnioInputsFalla == {2024}

NextFalla ==
    \/ \E p \in Productos, t \in TipoInputsFalla,
          q \in CantidadInputsVal, u \in PrecioInputs :
          RegistrarInsert(1, p, t, q, u, FALSE)
    \/ RegistrarUpdate(1, FALSE)
    \/ \E p \in Productos, m \in MesInputsFalla, a \in AnioInputsFalla,
          f \in BOOLEAN :
          CalcularExistenciasMesFalla(1, p, m, a, f)
    \/ \E m \in MesInputsFalla, a \in AnioInputsFalla, fallan \in SUBSET Productos :
          GenerarReporteSunatFalla(1, m, a, fallan)
    \/ Volver(1)

SpecFalla == InitVal /\ [][NextFalla]_vars

----------------------------------------------------------------------------
(* SpecPrecio: registrations of product 1 at its current price and at      *)
(* another one                                                              *)

PrecioInputsPrecio == {3, 5}
CantidadInputsPrecio == {-1, 2}

NextPrecio ==
    \/ \E t \in TipoInputsFalla, q \in CantidadInputsPrecio,
          u \in PrecioInputsPrecio :
          RegistrarInsert(1, 1, t, q, u, FALSE)
    \/ RegistrarUpdate(1, FALSE)
    \/ Volver(1)

SpecPrecio == Init /\ [][NextPrecio]_vars

----------------------------------------------------------------------------
(* SpecLibro: every operation of the calculator and of the manager over    *)
(* one ledger, storage failures included                                   *)

TipoInputsLibro == {"entrada", "salida", "ajuste"}

NextLibro ==
    \/ \E p \in PidInputsReg, t \in TipoInputsLibro, q \in CantidadInputsVal,
          u \in PrecioInputs, f \in BOOLEAN :
          RegistrarInsert(1, p, t, q, u, f)
    \/ \E f \in BOOLEAN : RegistrarUpdate(1, f)
    \/ \E p \in PidInputsReg, m \in MesInputsFalla, a \in AnioInputsFalla :
          CalcularExistenciasMes(1, p, m, a)
    \/ \E p \in PidInputsReg : CalcularStockActual(1, p)
    \/ \E m \in MesInputsFalla, a \in AnioInputsFalla : GenerarReporteSunat(1, m, a)
    \/ SugerirPedidos(1)
    \/ \E d \in DiasAlertaInputs : VerificarVencimientos(1, d)
    \/ Volver(1)

SpecLibro == InitLotes /\ [][NextLibro]_vars

----------------------------------------------------------------------------
(* SpecSnap: snapshots of December 2024 stored through the ledger's        *)
(* execute_update, and the valuation of January 2025 that reads them       *)

EmpresaInputs == {1, 2}
MesInputsSnap == {12, 13}
StockFinalInputs == {4, 9}
ValorFinalInputs == {12}

NextSnap ==
    \/ \E p \in PidInputsReg, m \in MesInputsSnap, a \in AnioInputsFalla,
          e \in EmpresaInputs, sf \in StockFinalInputs, vf \in ValorFinalInputs,
          f \in BOOLEAN :
          GuardarExistencia(1, p, m, a, e, sf, vf, f)
    \/ \E p \in PidInputsReg, a \in AnioInputs : CalcularExistenciasMes(1, p, 1, a)
    \/ Volver(1)

SpecSnap == Init /\ [][NextSnap]_vars

----------------------------------------------------------------------------
(* SpecConc: two callers, each with a ledger connection on the same        *)
(* database, make one registration each for product 1; their statements    *)
(* interleave in every order and either write of either call may fail.     *)
(* StockInicialInputs: the stock product 1 starts with.                    *)

CantidadInputsConc == {2, 3}
StockInicialInputs == {0, 4}

InitConc ==
    /\ \E s0 \in StockInicialInputs :
          productos = [p \in Productos |->
                        [stock |-> IF p = 1 THEN s0 ELSE 0,
                         stock_minimo |-> StockMinimoDe[p],
                         activo |-> TRUE, precio_unitario |-> PrecioDe[p]]]
    /\ movimientos = <<>>
    /\ existencias = {}
    /\ lotes = <<>>
    /\ hoy = [mes |-> 12, anio |-> 2024]
    /\ reloj = [dia |-> 30, medio |-> 0]
    /\ pc = [c \in Callers |-> "idle"]
    /\ call = [c \in Callers |-> EmptyCall]
    /\ ret = [c \in Callers |-> NoRet]

NextConc ==
    \/ \E c \in Callers, t \in TipoInputsFalla, q \in CantidadInputsConc,
          u \in PrecioInputs, f \in BOOLEAN :
          RegistrarInsert(c, 1, t, q, u, f)
    \/ \E c \in Callers, f \in BOOLEAN : RegistrarUpdate(c, f)

SpecConc == InitConc /\ [][NextConc]_vars

----------------------------------------------------------------------------
(* SpecCompleto: registrations whose second write never fails, so that     *)
(* every call runs to completion: it returns True, or fails in the INSERT  *)

NextCompleto ==
    \/ \E p \in PidInputsReg, t \in TipoInputs, q \in CantidadInputs,
          u \in PrecioInputs, f \in BOOLEAN :
          RegistrarInsert(1, p, t, q, u, f)
    \/ RegistrarUpdate(1, FALSE)
    \/ \E p \in PidInputs : CalcularStockActual(1, p)
    \/ Volver(1)

SpecCompleto == Init /\ [][NextCompleto]_vars

----------------------------------------------------------------------------
(* SpecReporte: a report of December 2024 read product by product while    *)
(* another caller registers inflows for the two products, both active      *)

NextReporte ==
    \/ GenerarReporteListar(1, 12, 2024)
    \/ GenerarReporteProducto(1)
    \/ \E p \in Productos, q \in CantidadInputsConc, u \in PrecioInputs :
          RegistrarInsert(2, p, "entrada", q, u, FALSE)
    \/ RegistrarUpdate(2, FALSE)
    \/ \E c \in Callers : Volver(c)

SpecReporte == InitConc /\ [][NextReporte]_vars

----------------------------------------------------------------------------
(* Claims about the monthly valuation *)

\* the previous period as the specification words it
PeriodoAnterior(mes, anio) ==
    IF mes = 1 THEN [mes |-> 12, anio |-> anio - 1]
               ELSE [mes |-> mes - 1, anio |-> anio]

\* the persisted snapshots of a product in the period before (mes, anio)
SnapshotsPrevios(producto_id, mes, anio) ==
    {e \in existencias :
        /\ e.producto_id = producto_id
        /\ e.mes = PeriodoAnterior(mes, anio).mes
        /\ e.anio = PeriodoAnterior(mes, anio).anio}

Valuaciones ==
    {ret[c].val : c \in {d \in Callers : ret[d].op = "calcular_existencias_mes"}}

\* C1: every record calcular_existencias_mes returns has
\* stock_final = stock_inicial + entradas - salidas and
\* valor_final = valor_inicial + valor_entradas - valor_salidas, negative
\* when the outflow exceeds opening plus inflow (no floor at zero).
C1_ClosingIdentity ==
    \A v \in Valuaciones :
        /\ v.stock_final = v.stock_inicial + v.entradas - v.salidas
        /\ v.valor_final = v.valor_inicial + v.valor_entradas - v.valor_salidas

\* a valuation whose outflow exceeds opening plus inflow, closing below zero
C1_Witness ==
    \E v \in Valuaciones :
        /\ v.salidas > v.stock_inicial + v.entradas
        /\ v.stock_final < 0
        /\ v.valor_final < 0

\* C3: for a product with no persisted snapshot of the previous period
\* (a product id that does not exist included), calcular_existencias_mes
\* returns stock_inicial = 0 and valor_inicial = 0.
C3_NoSnapshotZeroOpening ==
    \A v \in Valuaciones :
        SnapshotsPrevios(v.producto_id, v.mes, v.anio) = {}
            => v.stock_inicial = 0 /\ v.valor_inicial = 0

\* a product that has snapshots, none of them of the previous period
C3_Witness ==
    \E v \in Valuaciones :
        /\ SnapshotsPrevios(v.producto_id, v.mes, v.anio) = {}
        /\ \E e \in existencias : e.producto_id = v.producto_id
        /\ v.stock_inicial = 0
        /\ v.valor_inicial = 0

\* the same for a product id that references no product
C3_WitnessNoProduct ==
    \E v \in Valuaciones :
        /\ v.producto_id \notin DOMAIN productos
        /\ existencias # {}
        /\ v.stock_inicial = 0

\* C4: the period whose snapshot calcular_existencias_mes reads is
\* (12, year - 1) for month 1 and (month - 1, year) for months 2..12,
\* whatever the year.
C4_PreviousPeriod ==
    \A c \in Callers :
        ret[c].op = "calcular_existencias_mes" =>
            /\ ret[c].val.mes = 1 =>
                    ret[c].leido = <<12, ret[c].val.anio - 1>>
            /\ ret[c].val.mes \in 2..12 =>
                    ret[c].leido = <<ret[c].val.mes - 1, ret[c].val.anio>>

\* January of year 0 reads December of year -1
C4_Witness ==
    \E c \in Callers :
        /\ ret[c].op = "calcular_existencias_mes"
        /\ ret[c].val.mes = 1
        /\ ret[c].val.anio = 0
        /\ ret[c].leido = <<12, -1>>

Reportes ==
    {ret[c].val : c \in {d \in Callers : ret[d].op = "generar_reporte_sunat"}}

RECURSIVE SumValorFinal(_)
SumValorFinal(filas) ==
    IF filas = <<>> THEN 0
    ELSE Head(filas).valor_final + SumValorFinal(Tail(filas))

\* C6: total_valor_final of a report equals the sum of valor_final over its
\* productos list; with no active product the list is empty and the total 0.
C6_ReportTotal ==
    \A r \in Reportes :
        /\ r.total_valor_final = SumValorFinal(r.productos)
        /\ (\A p \in DOMAIN productos : ~productos[p].activo) =>
                r.productos = <<>> /\ r.total_valor_final = 0

\* a report of two products with different, non-zero closing values
C6_Witness ==
    \E r \in Reportes :
        /\ Len(r.productos) = 2
        /\ r.productos[1].valor_final # 0
        /\ r.productos[2].valor_final # 0
        /\ r.productos[1].valor_final # r.productos[2].valor_final
        /\ r.total_valor_final # 0

\* a report over a ledger with products, none of them active
C6_WitnessEmpty ==
    \E r \in Reportes :
        /\ \A p \in DOMAIN productos : ~productos[p].activo
        /\ movimientos # <<>>
        /\ r.productos = <<>>

----------------------------------------------------------------------------
(* Claims about movement registration and the reorder scan *)

Registros ==
    {ret[c] : c \in {d \in Callers : ret[d].op = "registrar_movimiento_dental"}}

RECURSIVE SumaFirmada(_, _)
\* what the stock updates of the rows of one product add up to
SumaFirmada(movs, producto_id) ==
    IF movs = <<>> THEN 0
    ELSE (IF Head(movs).producto_id # producto_id THEN 0
          ELSE IF Head(movs).tipo \in {"entrada", "ajuste_positivo"}
               THEN Head(movs).cantidad
               ELSE -Head(movs).cantidad)
         + SumaFirmada(Tail(movs), producto_id)

\* C2: the movement insert and the stock update of
\* registrar_movimiento_dental are one atomic unit: in no reachable state,
\* between the two writes or after a failure of the second, does the ledger
\* hold a movement row whose stock update has not been applied.
C2_AtomicRegistration ==
    \A p \in DOMAIN productos :
        productos[p].stock = SumaFirmada(movimientos, p)

\* C7: a successful registrar_movimiento_dental appends exactly one row for
\* the given product and changes that product's stock by +cantidad for
\* entrada / ajuste_positivo and by -cantidad for salida / ajuste_negativo;
\* no other product's stock and no existing row changes.
C7_SuccessfulRegistration ==
    \A r \in Registros :
        r.val = TRUE =>
            /\ Len(movimientos) = Len(r.pre_movimientos) + 1
            /\ SubSeq(movimientos, 1, Len(r.pre_movimientos)) = r.pre_movimientos
            /\ movimientos[Len(movimientos)].producto_id = r.producto_id
            /\ movimientos[Len(movimientos)].tipo = r.tipo
            /\ movimientos[Len(movimientos)].cantidad = r.cantidad
            /\ r.tipo \in {"entrada", "ajuste_positivo"} =>
                  productos[r.producto_id].stock =
                      r.pre_productos[r.producto_id].stock + r.cantidad
            /\ r.tipo \in {"salida", "ajuste_negativo"} =>
                  productos[r.producto_id].stock =
                      r.pre_productos[r.producto_id].stock - r.cantidad
            /\ \A p \in DOMAIN productos \ {r.producto_id} :
                  productos[p] = r.pre_productos[p]
            /\ DOMAIN productos = DOMAIN r.pre_productos

\* a successful ajuste_positivo on a ledger that already held a row
C7_Witness ==
    \E r \in Registros :
        /\ r.val = TRUE
        /\ r.tipo = "ajuste_positivo"
        /\ r.cantidad > 0
        /\ r.pre_movimientos # <<>>
        /\ productos[r.producto_id].stock =
              r.pre_productos[r.producto_id].stock + r.cantidad

\* a successful ajuste_negativo
C7_WitnessNegativo ==
    \E r \in Registros :
        /\ r.val = TRUE
        /\ r.tipo = "ajuste_negativo"
        /\ r.cantidad > 0

\* C8: registrar_movimiento_dental with a kind that is none of entrada,
\* salida, ajuste_positivo, ajuste_negativo reports failure and changes
\* neither the movement table nor any product's stock.
C8_InvalidKindRejected ==
    \A r \in Registros :
        r.tipo \notin {"entrada", "salida", "ajuste_positivo", "ajuste_negativo"} =>
            /\ r.val = FALSE
            /\ movimientos = r.pre_movimientos
            /\ productos = r.pre_productos

\* C9: registrar_movimiento_dental with a quantity of zero or less reports
\* failure, appends no row and changes no stock, so every movement of the
\* ledger has a positive quantity.
C9_NonPositiveRejected ==
    /\ \A r \in Registros :
          r.cantidad <= 0 =>
              /\ r.val = FALSE
              /\ movimientos = r.pre_movimientos
              /\ productos = r.pre_productos
    /\ \A i \in 1..Len(movimientos) : movimientos[i].cantidad > 0

Sugerencias ==
    {ret[c].val : c \in {d \in Callers : ret[d].op = "sugerir_pedidos"}}

\* C10: sugerir_pedidos returns exactly the active products with
\* stock < stock_minimo, each once, and every cantidad_sugerida equals
\* stock_minimo - stock and is greater than 0.
C10_ReorderExact ==
    \A s \in Sugerencias :
        /\ {s[i].id : i \in 1..Len(s)} =
              {p \in DOMAIN productos :
                  productos[p].activo /\ productos[p].stock < productos[p].stock_minimo}
        /\ \A i, j \in 1..Len(s) : s[i].id = s[j].id => i = j
        /\ \A i \in 1..Len(s) :
              /\ s[i].cantidad_sugerida =
                    productos[s[i].id].stock_minimo - productos[s[i].id].stock
              /\ s[i].cantidad_sugerida > 0

\* the scan returns the active product below its minimum and leaves out an
\* inactive product that is below its minimum too
C10_Witness ==
    \E s \in Sugerencias :
        /\ Len(s) = 1
        /\ productos[s[1].id].activo
        /\ s[1].cantidad_sugerida > 0
        /\ movimientos # <<>>
        /\ \E p \in DOMAIN productos :
              ~productos[p].activo /\ productos[p].stock < productos[p].stock_minimo

\* the scan returns nothing for an active product exactly at its minimum
C10_WitnessAtMinimum ==
    \E s \in Sugerencias :
        /\ s = <<>>
        /\ \E p \in DOMAIN productos :
              productos[p].activo /\ productos[p].stock = productos[p].stock_minimo

----------------------------------------------------------------------------
(* Claims about the expiry scan *)

Vencimientos ==
    {ret[c] : c \in {d \in Callers : ret[d].op = "verificar_vencimientos"}}

\* the lots of active products whose expiry date is day number 0..dias
\* counted from the date desde
LotesQueVencen(desde, dias) ==
    {i \in 1..Len(lotes) :
        /\ productos[lotes[i].producto_id].activo
        /\ DiaJuliano(lotes[i].fecha_vencimiento) - DiaJuliano(desde) \in 0..dias}

\* C11: verificar_vencimientos(dias_alerta) returns exactly the lots of
\* active products with today <= fecha_vencimiento <= today + dias_alerta,
\* both ends included, each once, in ascending order of expiry date.
C11_ExpiryWindow ==
    \A r \in Vencimientos :
        /\ {r.val[i].lote : i \in 1..Len(r.val)} = LotesQueVencen(r.hoy, r.dias_alerta)
        /\ Len(r.val) = Cardinality(LotesQueVencen(r.hoy, r.dias_alerta))
        /\ \A i \in 1..Len(r.val) :
              /\ r.val[i].fecha_vencimiento = lotes[r.val[i].lote].fecha_vencimiento
              /\ r.val[i].producto = lotes[r.val[i].lote].producto_id
        /\ \A i, j \in 1..Len(r.val) :
              i < j => DiaJuliano(r.val[i].fecha_vencimiento)
                          <= DiaJuliano(r.val[j].fecha_vencimiento)

\* a scan that returns a lot expiring today and one expiring on the last
\* day of its window
C11_Witness ==
    \E r \in Vencimientos :
        /\ r.dias_alerta > 0
        /\ \E i \in 1..Len(r.val) :
              DiaJuliano(r.val[i].fecha_vencimiento) - DiaJuliano(r.hoy) = r.dias_alerta
        /\ \E i \in 1..Len(r.val) : r.val[i].fecha_vencimiento = r.hoy

\* scans that leave out a lot past the window, an expired lot, the lot of an
\* inactive product
C11_WitnessLater ==
    \E r \in Vencimientos :
        /\ Len(r.val) > 0
        /\ \E i \in 1..Len(lotes) :
              /\ productos[lotes[i].producto_id].activo
              /\ DiaJuliano(lotes[i].fecha_vencimiento) - DiaJuliano(r.hoy) > r.dias_alerta

C11_WitnessExpired ==
    \E r \in Vencimientos :
        /\ Len(r.val) > 0
        /\ \E i \in 1..Len(lotes) :
              /\ productos[lotes[i].producto_id].activo
              /\ DiaJuliano(lotes[i].fecha_vencimiento) < DiaJuliano(r.hoy)

C11_WitnessInactive ==
    \E r \in Vencimientos :
        /\ Len(r.val) > 0
        /\ \E i \in 1..Len(lotes) :
              /\ ~productos[lotes[i].producto_id].activo
              /\ DiaJuliano(lotes[i].fecha_vencimiento) - DiaJuliano(r.hoy) \in 0..r.dias_alerta

\* C19: every row verificar_vencimientos returns has a dias_restantes that
\* is a whole number of days, equal to the expiry date minus today's date
\* and between 0 and dias_alerta, at whatever time of day the scan runs
\* (dias_restantes is counted in halves of a day).
C19_WholeDaysRemaining ==
    \A r \in Vencimientos :
        \A i \in 1..Len(r.val) :
            /\ r.val[i].dias_restantes % 2 = 0
            /\ r.val[i].dias_restantes =
                  2 * (DiaJuliano(r.val[i].fecha_vencimiento) - DiaJuliano(r.hoy))
            /\ r.val[i].dias_restantes \in 0..(2 * r.dias_alerta)

\* a scan run at noon returns a lot that expires today
C19_NoonScan ==
    \E r \in Vencimientos :
        /\ r.medio = 1
        /\ \E i \in 1..Len(r.val) : r.val[i].fecha_vencimiento = r.hoy

----------------------------------------------------------------------------
(* Claims about the valuation's inputs and the report's entries *)

\* a step in which a caller's calcular_existencias_mes runs and returns
PasoCalcular ==
    \E c \in Callers :
        /\ pc[c] = "idle"
        /\ pc'[c] = "returned"
        /\ ret'[c].op = "calcular_existencias_mes"

\* C12: a call of calcular_existencias_mes leaves the ledger as it was:
\* products, movements, persisted snapshots and lots are the same after the
\* call as before it.
C12_ValuationReadOnly ==
    [][PasoCalcular => UNCHANGED <<productos, movimientos, existencias, lotes>>]_vars

\* a valuation has just returned over a ledger that holds movements of the
\* product in the month and a snapshot of the month before
C12_Witness ==
    \E c \in Callers :
        /\ ret[c].op = "calcular_existencias_mes"
        /\ ret[c].movs # <<>>
        /\ ret[c].val.stock_inicial # 0
        /\ existencias # {}

----------------------------------------------------------------------------
(* Claims about the recomputed stock *)

StocksActuales ==
    {ret[c] : c \in {d \in Callers : ret[d].op = "calcular_stock_actual"}}

\* the rows of movimientos, by index, of a product and of one of the kinds
FilasDe(producto_id, tipos) ==
    {i \in 1..Len(movimientos) :
        /\ movimientos[i].producto_id = producto_id
        /\ movimientos[i].tipo \in tipos}

RECURSIVE SumaCantidades(_)
SumaCantidades(I) ==
    IF I = {} THEN 0
    ELSE LET i == CHOOSE j \in I : TRUE
         IN movimientos[i].cantidad + SumaCantidades(I \ {i})

\* C13: for an existing product calcular_stock_actual returns a
\* stock_calculado equal to the sum of the quantities of its entrada and
\* ajuste_positivo movements minus the sum of those of its salida and
\* ajuste_negativo movements, over its whole history and whatever the stored
\* stock is (0 without movements); for an id without product it returns None.
C13_RecomputedStock ==
    \A r \in StocksActuales :
        IF r.producto_id \in DOMAIN productos
        THEN /\ ~r.val.es_none
             /\ r.val.fila.stock_calculado =
                   SumaCantidades(FilasDe(r.producto_id, {"entrada", "ajuste_positivo"}))
                   - SumaCantidades(FilasDe(r.producto_id, {"salida", "ajuste_negativo"}))
             /\ r.val.fila.stock = productos[r.producto_id].stock
        ELSE r.val.es_none

\* a recomputed stock over inflow and outflow rows that differs from the
\* stored stock
C13_Witness ==
    \E r \in StocksActuales :
        /\ ~r.val.es_none
        /\ FilasDe(r.producto_id, {"entrada", "ajuste_positivo"}) # {}
        /\ FilasDe(r.producto_id, {"salida", "ajuste_negativo"}) # {}
        /\ r.val.fila.stock_calculado # r.val.fila.stock

C13_WitnessNoMovement ==
    \E r \in StocksActuales :
        /\ ~r.val.es_none
        /\ FilasDe(r.producto_id, TipoInputs) = {}
        /\ r.val.fila.stock_calculado = 0
        /\ movimientos # <<>>

C13_WitnessNone == \E r \in StocksActuales : r.val.es_none

----------------------------------------------------------------------------
(* Claims about what the valuation aggregates *)

CalculosDevueltos ==
    {ret[c] : c \in {d \in Callers : ret[d].op = "calcular_existencias_mes"}}

RECURSIVE Suma(_, _)
\* the sum of f[i] over the indices i in I
Suma(f, I) ==
    IF I = {} THEN 0
    ELSE LET i == CHOOSE j \in I : TRUE
         IN f[i] + Suma(f, I \ {i})

\* C14: in the record calcular_existencias_mes returns, entradas and
\* valor_entradas are the sums of cantidad and precio_total over the fetched
\* movements of kind entrada or ajuste_positivo, salidas and valor_salidas
\* those over the fetched movements of kind salida or ajuste_negativo; a
\* fetched movement of one of the four kinds is counted in exactly one of
\* the two.
C14_KindPartition ==
    \A r \in CalculosDevueltos :
        LET n == Len(r.movs)
            cant == [i \in 1..n |-> r.movs[i].cantidad]
            total == [i \in 1..n |-> r.movs[i].precio_total]
            E == {i \in 1..n : r.movs[i].tipo \in {"entrada", "ajuste_positivo"}}
            S == {i \in 1..n : r.movs[i].tipo \in {"salida", "ajuste_negativo"}}
            T == {i \in 1..n : r.movs[i].tipo \in TiposValidos}
        IN /\ r.val.entradas = Suma(cant, E)
           /\ r.val.valor_entradas = Suma(total, E)
           /\ r.val.salidas = Suma(cant, S)
           /\ r.val.valor_salidas = Suma(total, S)
           /\ r.val.entradas + r.val.salidas = Suma(cant, T)
           /\ r.val.valor_entradas + r.val.valor_salidas = Suma(total, T)

\* a valuation over a positive and a negative adjustment
C14_Witness ==
    \E r \in CalculosDevueltos :
        /\ \E i \in 1..Len(r.movs) : r.movs[i].tipo = "ajuste_positivo"
        /\ \E i \in 1..Len(r.movs) : r.movs[i].tipo = "ajuste_negativo"
        /\ r.val.entradas > 0
        /\ r.val.salidas > 0

\* a valuation over an entrada and a row without kind, which neither sum takes
C14_WitnessSinTipo ==
    \E r \in CalculosDevueltos :
        /\ \E i \in 1..Len(r.movs) : r.movs[i].tipo = "entrada"
        /\ \E i \in 1..Len(r.movs) : r.movs[i].tipo = NULL

\* the rows of movimientos of a product dated in month mes of year anio
MovimientosDelMes(producto_id, mes, anio) ==
    SelectSeq(movimientos, LAMBDA m :
        /\ m.producto_id = producto_id
        /\ m.fecha_hora.mes = mes
        /\ m.fecha_hora.anio = anio)

\* C15: the movements calcular_existencias_mes(producto, mes, anio)
\* aggregates are exactly the product's movements dated in that month of
\* that year: a movement of another product, of another month, or of the
\* same month of another year is not among them and changes no figure.
C15_PeriodFilter ==
    \A r \in CalculosDevueltos :
        LET cant == [i \in 1..Len(movimientos) |-> movimientos[i].cantidad]
            Del == {i \in 1..Len(movimientos) :
                       /\ movimientos[i].producto_id = r.val.producto_id
                       /\ movimientos[i].fecha_hora.mes = r.val.mes
                       /\ movimientos[i].fecha_hora.anio = r.val.anio}
            E == {i \in Del : movimientos[i].tipo \in {"entrada", "ajuste_positivo"}}
            S == {i \in Del : movimientos[i].tipo \in {"salida", "ajuste_negativo"}}
        IN /\ r.movs = MovimientosDelMes(r.val.producto_id, r.val.mes, r.val.anio)
           /\ r.val.entradas = Suma(cant, E)
           /\ r.val.salidas = Suma(cant, S)
           /\ r.val.stock_final - r.val.stock_inicial = Suma(cant, E) - Suma(cant, S)

\* a valuation that takes one of the product's two rows: the other is of
\* another month
C15_Witness ==
    \E r \in CalculosDevueltos :
        /\ Len(r.movs) = 1
        /\ r.val.entradas + r.val.salidas > 0
        /\ \E i \in 1..Len(movimientos) :
              /\ movimientos[i].producto_id = r.val.producto_id
              /\ movimientos[i].tipo \in TiposValidos
              /\ movimientos[i].fecha_hora.mes # r.val.mes

\* the product's row is of another month of the same year
C15_WitnessOtherMonth ==
    \E r \in CalculosDevueltos :
        /\ r.movs = <<>>
        /\ \E i \in 1..Len(movimientos) :
              /\ movimientos[i].producto_id = r.val.producto_id
              /\ movimientos[i].fecha_hora.mes # r.val.mes
              /\ movimientos[i].fecha_hora.anio = r.val.anio

\* the other row is of the same month of another year
C15_WitnessOtherYear ==
    \E r \in CalculosDevueltos :
        /\ r.movs = <<>>
        /\ \E i \in 1..Len(movimientos) :
              /\ movimientos[i].producto_id = r.val.producto_id
              /\ movimientos[i].fecha_hora.mes = r.val.mes
              /\ movimientos[i].fecha_hora.anio # r.val.anio

\* the other row is of another product
C15_WitnessOtherProduct ==
    \E r \in CalculosDevueltos :
        /\ Len(r.movs) = 1
        /\ \E i \in 1..Len(movimientos) :
              /\ movimientos[i].producto_id # r.val.producto_id
              /\ movimientos[i].fecha_hora.mes = r.val.mes
              /\ movimientos[i].fecha_hora.anio = r.val.anio

----------------------------------------------------------------------------
(* Claims about the report's entries *)

\* C16: the productos list of a report has exactly one entry for every
\* active product and none for an inactive one, in the order of the product
\* listing (ascending id), and the stock_inicial, entradas, salidas,
\* stock_final and valor_final of an entry are those calcular_existencias_mes
\* gives for that product and the report's month and year.
C16_ReportEntries ==
    \A r \in Reportes :
        /\ {r.productos[i].producto_id : i \in 1..Len(r.productos)}
              = {p \in DOMAIN productos : productos[p].activo}
        /\ \A i, j \in 1..Len(r.productos) :
              i < j => r.productos[i].producto_id < r.productos[j].producto_id
        /\ \A i \in 1..Len(r.productos) :
              LET e == r.productos[i]
                  ex == calcular_existencias_mes(e.producto_id, r.mes, r.anio,
                                                 DefaultEmpresa)
              IN /\ e.stock_inicial = ex.stock_inicial
                 /\ e.entradas = ex.entradas
                 /\ e.salidas = ex.salidas
                 /\ e.stock_final = ex.stock_final
                 /\ e.valor_final = ex.valor_final

\* a report with an entry that has movements, over a ledger where an
\* inactive product has movements of the month too
C16_Witness ==
    \E r \in Reportes :
        /\ \E i \in 1..Len(r.productos) :
              r.productos[i].entradas + r.productos[i].salidas > 0
        /\ \E p \in DOMAIN productos :
              /\ ~productos[p].activo
              /\ MovimientosDelMes(p, r.mes, r.anio) # <<>>

\* a report over two active products
C16_WitnessTwo ==
    \E r \in Reportes :
        /\ Len(r.productos) = 2
        /\ r.productos[1].stock_final # r.productos[2].stock_final

----------------------------------------------------------------------------
(* Claims about failures *)

LecturasConFallas ==
    {ret[c] : c \in {d \in Callers : ret[d].op = "lectura_con_fallas"}}

\* the products whose ledger reads the call makes
ProductosLeidos(r) ==
    IF r.de = "generar_reporte_sunat"
    THEN {p \in DOMAIN productos : productos[p].activo}
    ELSE r.fallan

\* C17: when a ledger read fails during calcular_existencias_mes the
\* exception leaves the call: nothing is returned in its place.  Inside
\* generar_reporte_sunat this fails the whole report: no report without the
\* product, and no partial report, is returned; without a failing read the
\* call returns its value.
C17_ReadFailurePropagates ==
    \A r \in LecturasConFallas :
        IF r.fallan \cap ProductosLeidos(r) # {}
        THEN r.res.raised /\ DOMAIN r.res = {"raised"}
        ELSE /\ ~r.res.raised
             /\ r.de = "generar_reporte_sunat" =>
                   r.res.val = generar_reporte_sunat(r.mes, r.anio)

\* a report over two active products with movements fails on the second
C17_Witness ==
    \E r \in LecturasConFallas :
        /\ r.de = "generar_reporte_sunat"
        /\ r.fallan = {2}
        /\ r.res.raised
        /\ productos[1].activo
        /\ MovimientosDelMes(1, r.mes, r.anio) # <<>>

C17_WitnessCalc ==
    \E r \in LecturasConFallas :
        r.de = "calcular_existencias_mes" /\ r.res.raised /\ movimientos # <<>>

\* the failing product is not listed: the report is returned
C17_WitnessNotRead ==
    \E r \in LecturasConFallas :
        /\ r.de = "generar_reporte_sunat"
        /\ r.fallan # {}
        /\ ~r.res.raised
        /\ Len(r.res.val.productos) > 0

\* C18: registrar_movimiento_dental never raises, it returns a bool: True
\* exactly when the movement row was appended and the stock update was
\* applied, False for every failure, be it the first write (rejected input
\* or storage failure: nothing written) or the second (the row stays, the
\* stock is as before).
C18_BooleanOutcome ==
    \A r \in Registros :
        /\ r.val \in BOOLEAN
        /\ IF r.val
           THEN /\ r.insertado
                /\ Len(movimientos) = Len(r.pre_movimientos) + 1
                /\ productos[r.producto_id].stock =
                      r.pre_productos[r.producto_id].stock
                      + (IF r.tipo \in {"entrada", "ajuste_positivo"}
                         THEN r.cantidad ELSE -r.cantidad)
           ELSE /\ productos = r.pre_productos
                /\ IF r.insertado
                   THEN Len(movimientos) = Len(r.pre_movimientos) + 1
                   ELSE movimientos = r.pre_movimientos

\* False after the second write failed: the row is there, the stock is not
C18_Witness ==
    \E r \in Registros :
        /\ ~r.val
        /\ r.insertado
        /\ r.cantidad # 0
        /\ Len(movimientos) = Len(r.pre_movimientos) + 1

\* False after the first write was rejected
C18_WitnessRejected ==
    \E r \in Registros :
        /\ ~r.val
        /\ ~r.insertado
        /\ r.tipo = "ajuste"
        /\ movimientos # <<>>

\* True after both writes
C18_WitnessTrue ==
    \E r \in Registros :
        /\ r.val
        /\ r.tipo = "ajuste_negativo"
        /\ productos[r.producto_id].stock < r.pre_productos[r.producto_id].stock

----------------------------------------------------------------------------
(* Claims about the rows of movimientos *)

\* C20: the precio_total of every movement row is its cantidad times the
\* precio_unitario given when it was registered; it is the row's own price
\* that counts, so the product's current price, whether the same or another
\* one, has no part in the totals of the rows.
C20_RowTotal ==
    /\ \A i \in 1..Len(movimientos) :
          movimientos[i].precio_total =
              movimientos[i].cantidad * movimientos[i].precio_unitario
    /\ \A r \in Registros :
          r.insertado =>
              LET m == movimientos[Len(movimientos)]
              IN /\ m.precio_unitario = r.precio_unitario
                 /\ m.cantidad = r.cantidad
                 /\ m.precio_total = r.cantidad * r.precio_unitario

\* two rows of a product registered at different prices, one of them not the
\* product's current price
C20_Witness ==
    /\ Len(movimientos) = 2
    /\ movimientos[1].producto_id = movimientos[2].producto_id
    /\ movimientos[1].precio_unitario # movimientos[2].precio_unitario
    /\ movimientos[1].precio_unitario # productos[movimientos[1].producto_id].precio_unitario
    /\ movimientos[1].precio_total # 0
    /\ \E r \in Registros : r.insertado

----------------------------------------------------------------------------
(* Claims about the ledger as a whole *)

\* C21: the movement ledger is append-only: a row that exists is there, at
\* the same place and with the same product, kind, quantity, unit price
\* and timestamp, after every step of registrar_movimiento_dental,
\* calcular_existencias_mes, calcular_stock_actual, generar_reporte_sunat,
\* sugerir_pedidos and verificar_vencimientos.
C21_AppendOnly ==
    [][/\ Len(movimientos') >= Len(movimientos)
       /\ \A i \in 1..Len(movimientos) :
             /\ movimientos'[i].id = movimientos[i].id
             /\ movimientos'[i].producto_id = movimientos[i].producto_id
             /\ movimientos'[i].tipo = movimientos[i].tipo
             /\ movimientos'[i].cantidad = movimientos[i].cantidad
             /\ movimientos'[i].precio_unitario = movimientos[i].precio_unitario
             /\ movimientos'[i].fecha_hora = movimientos[i].fecha_hora]_vars

\* a registration whose stock update failed has returned over a ledger that
\* already held a row: both rows are there
C21_Witness ==
    /\ Len(movimientos) = 2
    /\ \E r \in Registros : ~r.val /\ r.insertado /\ Len(r.pre_movimientos) = 1

\* a read has returned over a ledger with rows
C21_WitnessRead ==
    /\ Len(movimientos) = 2
    /\ \E c \in Callers : ret[c].op \in {"generar_reporte_sunat", "verificar_vencimientos"}

\* C22: the ledger holds at most one monthly snapshot per (product, month,
\* year): an attempt to store a second snapshot for a product, month and
\* year that already has one is rejected and stores nothing.
C22_OneSnapshotPerPeriod ==
    /\ \A e1, e2 \in existencias :
          (/\ e1.producto_id = e2.producto_id
           /\ e1.mes = e2.mes
           /\ e1.anio = e2.anio) => e1 = e2
    /\ \A c \in Callers :
          (/\ ret[c].op = "guardar_existencia"
           /\ \E e \in ret[c].pre_existencias :
                 /\ e.producto_id = ret[c].producto_id
                 /\ e.mes = ret[c].mes
                 /\ e.anio = ret[c].anio)
          => ret[c].raised /\ existencias = ret[c].pre_existencias

\* what the schema does keep: a second snapshot of the same product, month,
\* year and empresa_id is rejected
C22_SameEmpresaRejected ==
    \E c \in Callers :
        /\ ret[c].op = "guardar_existencia"
        /\ ret[c].raised
        /\ ret[c].mes = 12
        /\ ret[c].producto_id = 1
        /\ existencias # {}
        /\ \A e \in existencias : e.empresa_id # ret[c].empresa_id

----------------------------------------------------------------------------
(* Claims about concurrent callers *)

\* the signed quantity of a registration
Firmada(r) ==
    IF r.tipo \in {"entrada", "ajuste_positivo"} THEN r.cantidad ELSE -r.cantidad

\* C23: when two callers run registrar_movimiento_dental for the same
\* product with their statements interleaved in any order and both calls
\* return True, the product's stock is its initial stock plus the signed
\* quantities of both movements, and both movement rows are in the ledger.
C23_NoLostUpdate ==
    \A c1, c2 \in Callers :
        (/\ c1 # c2
         /\ ret[c1].op = "registrar_movimiento_dental"
         /\ ret[c2].op = "registrar_movimiento_dental"
         /\ ret[c1].val
         /\ ret[c2].val
         /\ ret[c1].producto_id = ret[c2].producto_id
         /\ Len(ret[c1].pre_movimientos) < Len(ret[c2].pre_movimientos))
        => LET p == ret[c1].producto_id
               n1 == Len(ret[c1].pre_movimientos) + 1
               n2 == Len(ret[c2].pre_movimientos) + 1
           IN /\ productos[p].stock =
                    ret[c1].pre_productos[p].stock + Firmada(ret[c1]) + Firmada(ret[c2])
              /\ Len(movimientos) = Len(ret[c1].pre_movimientos) + 2
              /\ movimientos[n1].producto_id = p
              /\ movimientos[n1].tipo = ret[c1].tipo
              /\ movimientos[n1].cantidad = ret[c1].cantidad
              /\ movimientos[n2].producto_id = p
              /\ movimientos[n2].tipo = ret[c2].tipo
              /\ movimientos[n2].cantidad = ret[c2].cantidad

\* both calls returned True and the second began between the two writes of
\* the first: it saw the first's row and the stock not yet updated
C23_Witness ==
    \E c1, c2 \in Callers :
        /\ c1 # c2
        /\ ret[c1].op = "registrar_movimiento_dental"
        /\ ret[c2].op = "registrar_movimiento_dental"
        /\ ret[c1].val
        /\ ret[c2].val
        /\ Len(ret[c2].pre_movimientos) = Len(ret[c1].pre_movimientos) + 1
        /\ ret[c2].pre_productos = ret[c1].pre_productos
        /\ ret[c1].pre_productos[1].stock # 0
        /\ ret[c1].tipo # ret[c2].tipo
        /\ ret[c1].cantidad # ret[c2].cantidad

----------------------------------------------------------------------------
(* Claims about lots and stock *)

\* C24: registering a lot does not change the stock of the lot's product
\* (nor any other product's): after the lot form has stored a lot, every
\* product's stock is what it was before.
C24_LotLeavesStock ==
    \A c \in Callers :
        (ret[c].op = "registrar_lote" /\ ret[c].val)
        => /\ Len(lotes) = Len(ret[c].pre_lotes) + 1
           /\ \A p \in DOMAIN productos :
                 productos[p].stock = ret[c].pre_productos[p].stock

\* C25: from a ledger where every product has stock 0 and no movements,
\* once every registrar_movimiento_dental call has run to completion
\* (returned True, or failed in its first write), every product's stored
\* stock equals the stock_calculado calcular_stock_actual derives from the
\* product's movements.
C25_StockMatchesHistory ==
    (\A c \in Callers : pc[c] # "update")
    => \A p \in DOMAIN productos :
          /\ ~calcular_stock_actual(p).es_none
          /\ calcular_stock_actual(p).fila.stock
                = calcular_stock_actual(p).fila.stock_calculado

\* what one movement row adds to entradas - salidas in the valuation of the
\* month it is dated in
ContribucionValuacion(m) ==
    LET movs == FiltrarMovimientos(<<m>>, m.producto_id, m.fecha_hora.mes,
                                   m.fecha_hora.anio, DefaultEmpresa)
    IN SumCantidad(movs, TiposEntrada) - SumCantidad(movs, TiposSalida)

\* C26: registrar_movimiento_dental and calcular_existencias_mes classify
\* kinds alike: for every row a successful registration has stored, the
\* signed change the call applied to the product's stock equals what the row
\* adds to entradas - salidas in the valuation of its month.
C26_KindsClassifiedAlike ==
    \A r \in Registros :
        r.val =>
            LET fila == movimientos[Len(movimientos)]
            IN /\ Len(movimientos) = Len(r.pre_movimientos) + 1
               /\ fila.producto_id = r.producto_id
               /\ productos[r.producto_id].stock
                    - r.pre_productos[r.producto_id].stock
                  = ContribucionValuacion(fila)

----------------------------------------------------------------------------
(* Claims about the snapshot table as seen by the operations *)

\* C27: no operation of InventoryCalculator or DentalInventoryManager writes
\* existencias: every step of a valuation, a report or a registration leaves
\* the persisted snapshots as they were, and a valuation opens with the
\* figures of the stored snapshot of the month before, or with 0 when none
\* is stored: never with closing figures computed for that month.
C27_SnapshotsNeverWritten ==
    [][/\ existencias' = existencias
       /\ \A c \in Callers :
             (Idle(c) /\ ret'[c].op = "calcular_existencias_mes") =>
                LET v == ret'[c].val
                    prev == {e \in existencias :
                                /\ e.producto_id = v.producto_id
                                /\ <<e.mes, e.anio>> = ret'[c].leido
                                /\ e.empresa_id = v.empresa_id}
                IN /\ prev = {} => v.stock_inicial = 0 /\ v.valor_inicial = 0
                   /\ \A e \in prev : /\ v.stock_inicial = e.stock_final
                                      /\ v.valor_inicial = e.valor_final]_vars

\* the valuation of January 2025 has just returned an opening stock of 0 for
\* a product whose December 2024 closes with a stock other than 0, no
\* snapshot being stored
C27_Witness ==
    \E c \in Callers :
        /\ ret[c].op = "calcular_existencias_mes"
        /\ ret[c].leido = <<12, 2024>>
        /\ ret[c].val.stock_inicial = 0
        /\ existencias = {}
        /\ calcular_existencias_mes(ret[c].val.producto_id, 12, 2024,
                                    DefaultEmpresa).stock_final # 0
        /\ \A i \in 1..Len(movimientos) : movimientos[i].tipo # NULL

----------------------------------------------------------------------------
(* Claims about registrations for a product that does not exist *)

\* C28: registrar_movimiento_dental called with a product id that references
\* no product returns False and leaves the ledger unchanged: no movement row
\* is appended and no product's stock changes.
C28_UnknownProductRejected ==
    \A r \in Registros :
        r.producto_id \notin DOMAIN r.pre_productos =>
            /\ r.val = FALSE
            /\ r.insertado = FALSE
            /\ movimientos = r.pre_movimientos
            /\ productos = r.pre_productos

\* a registration of a valid kind and a positive quantity for product 3,
\* which does not exist, has returned over a ledger that holds a movement
C28_Witness ==
    \E r \in Registros :
        /\ r.producto_id = 3
        /\ r.tipo = "entrada"
        /\ r.cantidad = 2
        /\ r.pre_movimientos # <<>>
        /\ r.pre_productos[1].stock # 0

----------------------------------------------------------------------------
(* Claims about a report read while movements are registered *)

RECURSIVE ReporteProductosDe(_, _, _, _)
\* the per-product figures of the report of (mes, anio) over a ledger whose
\* movements are movs (products and snapshots as they are)
ReporteProductosDe(movs, ids, mes, anio) ==
    IF ids = <<>> THEN <<>>
    ELSE LET p == Head(ids)
             prev == _get_previous_month(mes, anio)
             prev_data == _obtener_datos_mes_anterior(p, prev[1], prev[2],
                                                      DefaultEmpresa)
             del_mes == FiltrarMovimientos(movs, p, mes, anio, DefaultEmpresa)
             stock_inicial == IF prev_data # {}
                              THEN (CHOOSE e \in prev_data : TRUE).stock_final
                              ELSE 0
             valor_inicial == IF prev_data # {}
                              THEN (CHOOSE e \in prev_data : TRUE).valor_final
                              ELSE 0
             entradas == SumCantidad(del_mes, TiposEntrada)
             salidas == SumCantidad(del_mes, TiposSalida)
         IN <<[producto_id |-> p,
               stock_inicial |-> stock_inicial,
               entradas |-> entradas,
               salidas |-> salidas,
               stock_final |-> stock_inicial + entradas - salidas,
               valor_final |-> valor_inicial
                               + SumPrecioTotal(del_mes, TiposEntrada)
                               - SumPrecioTotal(del_mes, TiposSalida)]>>
            \o ReporteProductosDe(movs, Tail(ids), mes, anio)

\* C29: a report returned by generar_reporte_sunat while registrations of
\* the same month interleave with its per-product reads lists the figures of
\* one single ledger state that existed between the start and the end of
\* the call (the movements of the ledger only grow, so these states are the
\* prefixes of the final movements that hold the initial ones).
C29_ReportOfOneLedgerState ==
    \A c \in Callers :
        ret[c].op = "generar_reporte_sunat" =>
            \E k \in Len(ret[c].pre_movimientos)..Len(ret[c].fin_movimientos) :
                ret[c].val.productos
                    = ReporteProductosDe(SubSeq(ret[c].fin_movimientos, 1, k),
                                         ProductosActivos,
                                         ret[c].val.mes, ret[c].val.anio)

====
